---- MODULE Spec2Model ----
(***************************************************************************)
(* Model of the SVG size normalizer of src/gui.py (SvgConverterApp):       *)
(* _run_conversion, _on_finished, _postprocess_svg_sizing and _resize_svg  *)
(* with its helpers get_attr, parse_length_to_px and format_px.            *)
(*                                                                         *)
(* Attribute values are sequences of one-character strings, so that the    *)
(* regular expression, float() and the formatters are modelled by what     *)
(* they do to the text.  Python floats are modelled as exact rationals     *)
(* [n |-> numerator, d |-> positive denominator].                          *)
(***************************************************************************)
EXTENDS Integers, Sequences, FiniteSets, TLC

\* ------------------------------------------------------------------ bounds
\* largest value entered in the width and height spin boxes
MaxTarget == 2

\* ------------------------------------------------------------ text helpers
Digits == <<"0", "1", "2", "3", "4", "5", "6", "7", "8", "9">>

IsDigit(c) == \E i \in 1..10 : Digits[i] = c

DigitVal(c) == (CHOOSE i \in 1..10 : Digits[i] = c) - 1

IsSpace(c) == c = " "

AllDigits(s) == \A i \in 1..Len(s) : IsDigit(s[i])

RECURSIVE Pow10(_)
Pow10(k) == IF k <= 0 THEN 1 ELSE 10 * Pow10(k - 1)

RECURSIVE DigitsToInt(_)
DigitsToInt(s) == IF s = <<>> THEN 0 ELSE 10 * DigitsToInt(SubSeq(s, 1, Len(s) - 1)) + DigitVal(s[Len(s)])

RECURSIVE IntToText(_)
IntToText(n) == IF n < 10 THEN <<Digits[n + 1]>> ELSE IntToText(n \div 10) \o <<Digits[(n % 10) + 1]>>

SignedText(n) == IF n < 0 THEN <<"-">> \o IntToText(0 - n) ELSE IntToText(n)

Strip(s) == LET idx == {i \in 1..Len(s) : ~IsSpace(s[i])} IN IF idx = {} THEN <<>> ELSE SubSeq(s, CHOOSE i \in idx : \A j \in idx : i <= j, CHOOSE i \in idx : \A j \in idx : i >= j)

\* -------------------------------------------------------------- rationals
Rat(n, d) == [n |-> n, d |-> d]

RMul(a, b) == Rat(a.n * b.n, a.d * b.d)

RDiv(a, b) == IF b.n < 0 THEN Rat(0 - a.n * b.d, 0 - a.d * b.n) ELSE Rat(a.n * b.d, a.d * b.n)

REq(a, b) == a.n * b.d = b.n * a.d

RLt(a, b) == a.n * b.d < b.n * a.d

RLe(a, b) == a.n * b.d <= b.n * a.d

AbsInt(x) == IF x < 0 THEN 0 - x ELSE x

\* Python round(): nearest integer, ties to the even one.
RoundHalfEven(n, d) == LET q == n \div d  r == n % d IN IF 2 * r < d THEN q ELSE IF 2 * r > d THEN q + 1 ELSE IF q % 2 = 0 THEN q ELSE q + 1

\* ------------------------------------------------- float() and the regex
\* float(x) for a text over the model's alphabet: an optional sign, digits
\* with at most one ".", at least one digit.  <<>> stands for ValueError,
\* <<r>> for the value r.
FloatOfParts(negative, ip, fp) ==
    IF AllDigits(ip) /\ AllDigits(fp) /\ Len(ip) + Len(fp) > 0
    THEN <<Rat(IF negative THEN 0 - DigitsToInt(ip \o fp) ELSE DigitsToInt(ip \o fp), Pow10(Len(fp)))>>
    ELSE <<>>

FloatOfBody(negative, body, dots) ==
    IF dots = {} THEN FloatOfParts(negative, body, <<>>)
    ELSE IF Cardinality(dots) > 1 THEN <<>>
    ELSE FloatOfParts(negative, SubSeq(body, 1, (CHOOSE i \in dots : TRUE) - 1), SubSeq(body, (CHOOSE i \in dots : TRUE) + 1, Len(body)))

FloatOfSigned(negative, body) == FloatOfBody(negative, body, {i \in 1..Len(body) : body[i] = "."})

FloatOfStripped(s) ==
    IF Len(s) > 0 /\ s[1] \in {"+", "-"} THEN FloatOfSigned(s[1] = "-", Tail(s))
    ELSE FloatOfSigned(FALSE, s)

ParseFloat(t) == FloatOfStripped(Strip(t))

Units == {<<"p", "x">>, <<"p", "t">>, <<"i", "n">>, <<"c", "m">>, <<"m", "m">>, <<"p", "c">>}

\* The pattern of line 553 as written, r'^([0-9]*\\.?[0-9]+)\\s*(px|pt|in|cm|mm|pc)?$':
\* in a raw string \\ is a literal backslash, so the pattern reads
\*   digits* BACKSLASH anychar? digits+ BACKSLASH "s"* unit? end.
\* q[1] and q[2] are the places of the two backslashes and q[3] the place
\* where the unit starts; the result is the set of <<group 1, group 2>> of
\* the matches.
LengthRegexMatches(s) ==
    LET bs == {i \in 1..Len(s) : s[i] = "\\"}
    IN {<<SubSeq(s, 1, q[2] - 1), SubSeq(s, q[3], Len(s))>> :
            q \in {q \in bs \X bs \X (1..(Len(s) + 1)) :
                /\ AllDigits(SubSeq(s, 1, q[1] - 1))
                /\ \E o \in {0, 1} :
                    /\ q[1] + o + 1 <= q[2] - 1
                    /\ AllDigits(SubSeq(s, q[1] + o + 1, q[2] - 1))
                /\ q[2] < q[3]
                /\ \A i \in (q[2] + 1)..(q[3] - 1) : s[i] = "s"
                /\ SubSeq(s, q[3], Len(s)) \in Units \cup {<<>>}}}

UnitFactor(u) ==
    CASE u = <<"p", "x">> -> Rat(1, 1)
      [] u = <<"p", "t">> -> Rat(96, 72)
      [] u = <<"i", "n">> -> Rat(96, 1)
      [] u = <<"c", "m">> -> Rat(9600, 254)
      [] u = <<"m", "m">> -> Rat(960, 254)
      [] u = <<"p", "c">> -> Rat(12 * 96, 72)

\* parse_length_to_px: [kind |-> "none"] for None, [kind |-> "raise"] when
\* float() raises ValueError, [kind |-> "val", v |-> pixels] otherwise.
LengthOfValue(val, unit) ==
    IF val = <<>> THEN [kind |-> "raise"]
    ELSE [kind |-> "val", v |-> RMul(val[1], UnitFactor(IF unit = <<>> THEN <<"p", "x">> ELSE unit))]

LengthOfMatch(m) == LengthOfValue(ParseFloat(m[1]), m[2])

LengthOfMatches(ms) == IF ms = {} THEN [kind |-> "none"] ELSE LengthOfMatch(CHOOSE x \in ms : TRUE)

parse_length_to_px(text) ==
    IF text = <<>> THEN [kind |-> "none"] ELSE LengthOfMatches(LengthRegexMatches(Strip(text)))

\* ------------------------------------------------------------- formatters
RECURSIVE PadDigits(_, _)
PadDigits(n, width) == IF width <= 0 THEN <<>> ELSE PadDigits(n \div 10, width - 1) \o <<Digits[(n % 10) + 1]>>

\* f"{val:.2f}": two decimals, ties to even.
FixedText(h, places) ==
    (IF h < 0 THEN <<"-">> ELSE <<>>) \o IntToText(AbsInt(h) \div Pow10(places)) \o <<".">> \o PadDigits(AbsInt(h) % Pow10(places), places)

FormatFixed2(val) == FixedText(RoundHalfEven(100 * val.n, val.d), 2)

\* format_px: an integer-valued amount (within 1e-6) without a fraction,
\* any other amount with exactly two decimals.  abs(val - round(val)) < 1e-6
\* is |n - r*d| * 10^6 < d, written without the large product.
PxText(val, r) ==
    IF AbsInt(val.n - r * val.d) <= (val.d - 1) \div 1000000
    THEN SignedText(r) \o <<"p", "x">>
    ELSE FormatFixed2(val) \o <<"p", "x">>

format_px(val) == PxText(val, RoundHalfEven(val.n, val.d))

RECURSIVE FloorLog10(_, _)
FloorLog10(n, d) == IF n >= 10 * d THEN FloorLog10(n, 10 * d) + 1 ELSE IF n < d THEN FloorLog10(10 * n, d) - 1 ELSE 0

RECURSIVE StripZeros(_)
StripZeros(s) == IF s # <<>> /\ s[Len(s)] = "0" THEN StripZeros(SubSeq(s, 1, Len(s) - 1)) ELSE s

\* f"{val:g}" for val > 0: six significant digits m with the decimal
\* exponent x, trailing zeros removed, exponent form when x is below -4 or
\* at least 6.
Fraction(ds) == IF ds = <<>> THEN <<>> ELSE <<".">> \o ds

GText(m, x) ==
    IF x < 0 - 4 \/ x >= 6
    THEN IntToText(m \div 100000) \o Fraction(StripZeros(PadDigits(m % 100000, 5)))
         \o <<"e", IF x < 0 THEN "-" ELSE "+">>
         \o (IF AbsInt(x) < 10 THEN <<"0">> ELSE <<>>) \o IntToText(AbsInt(x))
    ELSE IF x >= 0
    THEN IntToText(m \div Pow10(5 - x)) \o Fraction(StripZeros(PadDigits(m % Pow10(5 - x), 5 - x)))
    ELSE <<"0">> \o Fraction(StripZeros(PadDigits(m, 5 - x)))

GRounded(m0, x0) == IF m0 = 1000000 THEN GText(100000, x0 + 1) ELSE GText(m0, x0)

GDigits(val, x0) ==
    IF x0 >= 5 THEN GRounded(RoundHalfEven(val.n, val.d * Pow10(x0 - 5)), x0)
    ELSE GRounded(RoundHalfEven(val.n * Pow10(5 - x0), val.d), x0)

FormatG(val) == GDigits(val, FloorLog10(val.n, val.d))

\* ------------------------------------------------------------- documents
\* An attribute of the root element is <<>> when absent and <<text>> when
\* present.  wellFormed: ET.parse succeeds; writable: tree.write can open
\* the file; serializer: who produced the bytes on disk.
Absent == <<>>

Attr(text) == <<text>>

get_attr(elem, key, default) == IF elem[key] # Absent THEN elem[key][1] ELSE default

ParAttr == <<"x", "M", "i", "d", "Y", "M", "i", "d", " ", "m", "e", "e", "t">>

\* str.replace(",", " ")
ReplaceCommas(s) == [i \in 1..Len(s) |-> IF s[i] = "," THEN " " ELSE s[i]]

\* str.split(): the maximal runs of non-whitespace characters.
RECURSIVE Split(_)
Split(s) ==
    IF s = <<>> THEN <<>>
    ELSE IF IsSpace(s[1]) THEN Split(Tail(s))
    ELSE LET sp == {i \in 1..Len(s) : IsSpace(s[i])}
             e == IF sp = {} THEN Len(s) + 1 ELSE CHOOSE i \in sp : \A j \in sp : i <= j
         IN <<SubSeq(s, 1, e - 1)>> \o Split(SubSeq(s, e, Len(s)))

Take4(s) == SubSeq(s, 1, IF Len(s) < 4 THEN Len(s) ELSE 4)

\* Lines 594-599: every token goes through float(), the list is cut to its
\* first four values, and a list of any other length is an error.
ViewBoxOfValues(vb_vals) ==
    IF Len(vb_vals) # 4 THEN [ok |-> FALSE, vals |-> <<>>] ELSE [ok |-> TRUE, vals |-> vb_vals]

ViewBoxOfFloats(fl) ==
    IF \E i \in 1..Len(fl) : fl[i] = <<>> THEN [ok |-> FALSE, vals |-> <<>>]
    ELSE ViewBoxOfValues(Take4([i \in 1..Len(fl) |-> fl[i][1]]))

ViewBoxOfTokens(toks) == ViewBoxOfFloats([i \in 1..Len(toks) |-> ParseFloat(toks[i])])

ParseViewBox(viewbox_attr) == ViewBoxOfTokens(Split(ReplaceCommas(viewbox_attr)))

Doc(w, h, vb) == [wellFormed |-> TRUE, writable |-> TRUE, width |-> w, height |-> h, viewBox |-> vb, preserveAspectRatio |-> Absent, serializer |-> "source"]

\* ------------------------------------------------------------ _resize_svg
\* The exception raised only after the tree was written back.
RaiseAfterWrite(doc, reason) ==
    [outcome |-> "raise", reason |-> reason, dims |-> <<>>,
     doc |-> [doc EXCEPT !.preserveAspectRatio = Attr(ParAttr), !.serializer = "etree"]]

Raise(doc, reason) == [outcome |-> "raise", reason |-> reason, doc |-> doc, dims |-> <<>>]

Truthy(p) == p.kind = "val" /\ p.v.n # 0

Zero == Rat(0, 1)

\* Lines 583-592: the viewBox the later steps see.  kind is "present" (the
\* attribute is there), "derived" (set on the tree from width and height),
\* "missing" (the ValueError of line 592) or "float" (float() raised inside
\* parse_length_to_px).
DeriveViewBox(w_px, h_px) ==
    IF w_px.kind = "raise" \/ h_px.kind = "raise" THEN [kind |-> "float", text |-> <<>>]
    ELSE IF Truthy(w_px) /\ Truthy(h_px) /\ RLt(Zero, w_px.v) /\ RLt(Zero, h_px.v)
    THEN [kind |-> "derived", text |-> <<"0", " ", "0", " ">> \o FormatG(w_px.v) \o <<" ">> \o FormatG(h_px.v)]
    ELSE [kind |-> "missing", text |-> <<>>]

ResolveViewBox(width_attr, height_attr, viewbox_attr) ==
    IF viewbox_attr # <<>> THEN [kind |-> "present", text |-> viewbox_attr]
    ELSE DeriveViewBox(parse_length_to_px(width_attr), parse_length_to_px(height_attr))

\* TargetSize with the viewBox ratio of the one-dimension cases upside down.
TargetSizeInvertedRatio(vb_w, vb_h, is_exact, scale_value, target_w, target_h) ==
    IF is_exact
    THEN IF target_w > 0 /\ target_h > 0 THEN <<Rat(target_w, 1), Rat(target_h, 1)>>
         ELSE IF target_w > 0 THEN <<Rat(target_w, 1), RMul(Rat(target_w, 1), RDiv(vb_w, vb_h))>>
         ELSE <<RMul(Rat(target_h, 1), RDiv(vb_h, vb_w)), Rat(target_h, 1)>>
    ELSE <<RMul(vb_w, scale_value), RMul(vb_h, scale_value)>>

\* TargetSize with the scale factor applied to the width alone.
TargetSizeWidthOnly(vb_w, vb_h, is_exact, scale_value, target_w, target_h) ==
    IF is_exact
    THEN IF target_w > 0 /\ target_h > 0 THEN <<Rat(target_w, 1), Rat(target_h, 1)>>
         ELSE IF target_w > 0 THEN <<Rat(target_w, 1), RMul(Rat(target_w, 1), RDiv(vb_h, vb_w))>>
         ELSE <<RMul(Rat(target_h, 1), RDiv(vb_w, vb_h)), Rat(target_h, 1)>>
    ELSE <<RMul(vb_w, scale_value), vb_h>>

\* TargetSize without the both-set case: the height follows the width.
TargetSizeKeepAspect(vb_w, vb_h, is_exact, scale_value, target_w, target_h) ==
    IF is_exact
    THEN IF target_w > 0 THEN <<Rat(target_w, 1), RMul(Rat(target_w, 1), RDiv(vb_h, vb_w))>>
         ELSE <<RMul(Rat(target_h, 1), RDiv(vb_w, vb_h)), Rat(target_h, 1)>>
    ELSE <<RMul(vb_w, scale_value), RMul(vb_h, scale_value)>>

\* Lines 609-625 after the both-unset return: the new size in pixels.
TargetSize(vb_w, vb_h, is_exact, scale_value, target_w, target_h) ==
    IF is_exact
    THEN IF target_w > 0 /\ target_h > 0 THEN <<Rat(target_w, 1), Rat(target_h, 1)>>
         ELSE IF target_w > 0 THEN <<Rat(target_w, 1), RMul(Rat(target_w, 1), RDiv(vb_h, vb_w))>>
         ELSE <<RMul(Rat(target_h, 1), RDiv(vb_w, vb_h)), Rat(target_h, 1)>>
    ELSE <<RMul(vb_w, scale_value), RMul(vb_h, scale_value)>>

\* ApplySize that also rewrites the viewBox to the new size.
ApplySizeScalingViewBox(doc, new_w_px, new_h_px) ==
    [doc EXCEPT !.viewBox = Attr(<<"0", " ", "0", " ">> \o FormatG(new_w_px) \o <<" ">> \o FormatG(new_h_px)),
                !.width = Attr(format_px(new_w_px)), !.height = Attr(format_px(new_h_px)), !.preserveAspectRatio = Attr(ParAttr), !.serializer = "etree"]

\* ApplySize that also writes the viewBox back with blanks for commas.
ApplySizeNormalizingViewBox(doc, new_w_px, new_h_px) ==
    [doc EXCEPT !.viewBox = Attr(ReplaceCommas(doc.viewBox[1])),
                !.width = Attr(format_px(new_w_px)), !.height = Attr(format_px(new_h_px)), !.preserveAspectRatio = Attr(ParAttr), !.serializer = "etree"]

\* Lines 627-632: the tree after the three root.set calls, as tree.write
\* serializes it.
ApplySize(doc, new_w_px, new_h_px) ==
    [doc EXCEPT !.width = Attr(format_px(new_w_px)), !.height = Attr(format_px(new_h_px)), !.preserveAspectRatio = Attr(ParAttr), !.serializer = "etree"]

\* NothingRequested with < for the second <=.
NothingRequestedStrict(is_exact, target_w, target_h) == is_exact /\ target_w <= 0 /\ target_h < 0

\* Lines 609-612: "Nothing to change".
NothingRequested(is_exact, target_w, target_h) == is_exact /\ target_w <= 0 /\ target_h <= 0

Written(tree, old_w_px, old_h_px, new) ==
    [outcome |-> "written", reason |-> "", doc |-> ApplySize(tree, new[1], new[2]),
     dims |-> <<RoundHalfEven(old_w_px.n, old_w_px.d), RoundHalfEven(old_h_px.n, old_h_px.d),
                RoundHalfEven(new[1].n, new[1].d), RoundHalfEven(new[2].n, new[2].d)>>]

\* Lines 605-635, for the viewBox size vb_w x vb_h; pw and ph are
\* parse_length_to_px of the width and height attributes, tree is the
\* parsed document with the viewBox the resolver may have set.
ResizeTree(doc, tree, vb_w, vb_h, pw, ph, is_exact, sv, target_w, target_h) ==
    IF pw.kind = "raise" \/ ph.kind = "raise" THEN Raise(doc, "could not convert string to float")
    ELSE IF NothingRequested(is_exact, target_w, target_h) THEN [outcome |-> "return", reason |-> "", doc |-> doc, dims |-> <<>>]
    ELSE IF ~doc.writable THEN Raise(doc, "write failed")
    ELSE Written(tree, IF Truthy(pw) THEN pw.v ELSE vb_w, IF Truthy(ph) THEN ph.v ELSE vb_h,
                 TargetSize(vb_w, vb_h, is_exact, sv, target_w, target_h))

\* Lines 594-603, for the viewBox vb of the resolver.
ResizeParsed(doc, vb, parsed, is_exact, sv, target_w, target_h) ==
    IF ~parsed.ok THEN Raise(doc, "Invalid viewBox")
    ELSE IF RLe(parsed.vals[3], Zero) \/ RLe(parsed.vals[4], Zero) THEN Raise(doc, "Non-positive viewBox dimensions")
    ELSE ResizeTree(doc, IF vb.kind = "derived" THEN [doc EXCEPT !.viewBox = Attr(vb.text)] ELSE doc,
                    parsed.vals[3], parsed.vals[4],
                    parse_length_to_px(get_attr(doc, "width", <<>>)), parse_length_to_px(get_attr(doc, "height", <<>>)),
                    is_exact, sv, target_w, target_h)

ResizeResolved(doc, vb, is_exact, sv, target_w, target_h) ==
    IF vb.kind = "float" THEN Raise(doc, "could not convert string to float")
    ELSE IF vb.kind = "missing" THEN Raise(doc, "Missing viewBox and numeric width/height")
    ELSE ResizeParsed(doc, vb, ParseViewBox(vb.text), is_exact, sv, target_w, target_h)

\* One call of _resize_svg on the file content doc.  outcome is "raise"
\* (an exception leaves the method), "return" (the early return of line
\* 612) or "written" (tree.write ran); doc is the file content afterwards.
resize_svg(doc, is_exact, sv, target_w, target_h) ==
    IF ~doc.wellFormed THEN Raise(doc, "ParseError")
    ELSE ResizeResolved(doc, ResolveViewBox(get_attr(doc, "width", <<>>), get_attr(doc, "height", <<>>), get_attr(doc, "viewBox", <<>>)),
                        is_exact, sv, target_w, target_h)

\* ------------------------------------------------------ state of the app
VARIABLES files, exact_radio, scale_spin, width_spin, height_spin, run_button, process, args, log

vars == <<files, exact_radio, scale_spin, width_spin, height_spin, run_button, process, args, log>>

ui == <<exact_radio, scale_spin, width_spin, height_spin>>

\* The files of the output directory's SVG folder.
NameA == <<"a", ".", "s", "v", "g">>

NameB == <<"B", ".", "S", "V", "G">>

NameT == <<"n", ".", "t", "x", "t">>

Names == {NameA, NameB, NameT}

Lower(c) == CASE c = "B" -> "b" [] c = "S" -> "s" [] c = "V" -> "v" [] c = "G" -> "g" [] OTHER -> c

\* name.lower().endswith(".svg")
IsSvgName(name) == Len(name) >= 4 /\ [i \in 1..4 |-> Lower(name[Len(name) - 4 + i])] = <<".", "s", "v", "g">>

\* The values of the scale spin box, in hundredths (two decimals).
ScaleChoices == {25, 100, 150}

scale_value == Rat(scale_spin, 100)

\* abs(scale_value - 1.0) < 1e-6
ScaleIsOne(sv) == AbsInt(sv.n - sv.d) <= (sv.d - 1) \div 1000000

\* The batch guard with the comparison of line 442 (> for <).
NoSizingRequestedInverted(is_exact, sv) == ~is_exact /\ AbsInt(sv.n - sv.d) > (sv.d - 1) \div 1000000

\* Line 522: the batch guard.
NoSizingRequested(is_exact, sv) == ~is_exact /\ ScaleIsOne(sv)

Line(kind, name, reason, dims) == [kind |-> kind, name |-> name, reason |-> reason, dims |-> dims]

\* Lines 531-534: one file of the walk; the except clause turns any
\* exception of _resize_svg into a log line.  st is the directory and the
\* log so far, r the result of the call.
Logged(st, name, r) ==
    [fs |-> [st.fs EXCEPT ![name] = r.doc],
     lg |-> IF r.outcome = "raise" THEN Append(st.lg, Line("skipped", name, r.reason, <<>>))
            ELSE IF r.outcome = "written" THEN Append(st.lg, Line("resized", name, "", r.dims))
            ELSE st.lg]

ResizeOne(st, name, is_exact, sv, target_w, target_h) ==
    Logged(st, name, resize_svg(st.fs[name], is_exact, sv, target_w, target_h))

\* The walk without the except clause: the first exception ends it and
\* reaches _on_finished, which logs it.
RECURSIVE WalkAbortOnFailure(_, _, _, _, _, _)
WalkAbortOnFailure(st, order, is_exact, sv, target_w, target_h) ==
    IF order = <<>> THEN st
    ELSE IF ~IsSvgName(Head(order)) THEN WalkAbortOnFailure(st, Tail(order), is_exact, sv, target_w, target_h)
    ELSE IF resize_svg(st.fs[Head(order)], is_exact, sv, target_w, target_h).outcome = "raise"
    THEN [fs |-> st.fs, lg |-> Append(st.lg, Line("pp_error", <<>>, "", <<>>))]
    ELSE WalkAbortOnFailure(ResizeOne(st, Head(order), is_exact, sv, target_w, target_h), Tail(order), is_exact, sv, target_w, target_h)

\* Lines 526-534: the walk over the directory, in the order os.walk yields.
RECURSIVE Walk(_, _, _, _, _, _)
Walk(st, order, is_exact, sv, target_w, target_h) ==
    IF order = <<>> THEN st
    ELSE IF ~IsSvgName(Head(order)) THEN Walk(st, Tail(order), is_exact, sv, target_w, target_h)
    ELSE Walk(ResizeOne(st, Head(order), is_exact, sv, target_w, target_h), Tail(order), is_exact, sv, target_w, target_h)

\* _postprocess_svg_sizing: the policy is read from the widgets.
postprocess_svg_sizing(st, order, is_exact, sv, target_w, target_h) ==
    IF NoSizingRequested(is_exact, sv) THEN [fs |-> st.fs, lg |-> Append(st.lg, Line("skip_all", <<>>, "", <<>>))]
    ELSE Walk(st, order, is_exact, sv, target_w, target_h)

Orders == {o \in [1..Cardinality(Names) -> Names] : \A i, j \in 1..Cardinality(Names) : o[i] = o[j] => i = j}


\* ------------------------------------------------------ input documents
\* a viewBox and no width or height
DocPlain == Doc(Absent, Absent, Attr(<<"0", " ", "0", " ", "1", "0", "0", " ", "5", "0">>))

\* stale width and height beside the viewBox, comma separators
DocStale == Doc(Attr(<<"1", "0">>), Attr(<<"5", "p", "t">>), Attr(<<"0", ",", "0", ",", "3", " ", "1">>))

\* a fractional viewBox
DocHalf == Doc(Attr(<<"1", "i", "n">>), Absent, Attr(<<"0", " ", "0", " ", "0", ".", "5", " ", "1">>))

\* no viewBox, width and height with units
DocInch == Doc(Attr(<<"1", "i", "n">>), Attr(<<"9", "6", "p", "x">>), Absent)

\* a negative viewBox width
DocNegative == Doc(Absent, Absent, Attr(<<"0", " ", "0", " ", "-", "5", " ", "1", "0">>))

\* three viewBox tokens
DocThree == Doc(Absent, Absent, Attr(<<"0", " ", "0", " ", "5">>))

\* five viewBox tokens
DocFive == Doc(Absent, Absent, Attr(<<"0", " ", "0", " ", "1", "0", "0", " ", "5", "0", " ", "7">>))

\* a width the pattern of line 553 matches
DocBackslash == Doc(Attr(<<"1", "\\", "2", "\\">>), Absent, Attr(<<"0", " ", "0", " ", "4", " ", "2">>))

\* no sizing attribute at all
DocBare == Doc(Absent, Absent, Absent)

\* a viewBox token that is no number
DocWord == Doc(Absent, Absent, Attr(<<"0", " ", "0", " ", "p", "x", " ", "5">>))

\* an empty viewBox attribute
DocEmptyVb == Doc(Attr(<<"3">>), Attr(<<"4">>), Attr(<<>>))

\* no viewBox and a width the pattern matches
DocBackslashNoVb == Doc(Attr(<<"1", "\\", "2", "\\">>), Attr(<<"5">>), Absent)

\* a zero viewBox width
DocZero == Doc(Absent, Absent, Attr(<<"0", " ", "0", " ", "0", " ", "5">>))

\* a viewBox with an origin, canonical width and height
DocOffset == Doc(Attr(<<"6", "p", "x">>), Attr(<<"1", "2", "p", "x">>), Attr(<<"1", " ", "2", " ", "4", " ", "8">>))

\* what the conversion script emits
DocWide == Doc(Attr(<<"1", "0", "0", "p", "x">>), Attr(<<"5", "0", "p", "x">>), Attr(<<"0", " ", "0", " ", "8", " ", "4">>))

\* a file ET.parse rejects
DocBroken == [Doc(Absent, Absent, Absent) EXCEPT !.wellFormed = FALSE]

\* a valid document in a file that cannot be opened for writing
DocReadOnly == [DocPlain EXCEPT !.writable = FALSE]

\* the file that is no SVG
DocText == [Doc(Absent, Absent, Absent) EXCEPT !.wellFormed = FALSE]

RichDocs == {DocPlain, DocStale, DocHalf, DocInch, DocNegative, DocThree, DocFive, DocBackslash, DocBare, DocWord, DocEmptyVb, DocBackslashNoVb, DocZero, DocOffset, DocBroken, DocReadOnly}

Dir(a, b) == (NameA :> a) @@ (NameB :> b) @@ (NameT :> DocText)


\* ---------------------------------------------------------------- actions
\* f"{v:.4f}"
FormatFixed4(val) == FixedText(RoundHalfEven(10000 * val.n, val.d), 4)

\* abs(scale - 1.0) > 1e-6
ScaleDiffers(sv) == AbsInt(sv.n - sv.d) >= (sv.d \div 1000000) + 1

\* Lines 434-443: the sizing arguments handed to the conversion script.
SizingArgs(is_exact, sv, w, h) ==
    IF is_exact
    THEN (IF w > 0 THEN <<<<"--out-w", IntToText(w)>>>> ELSE <<>>) \o (IF h > 0 THEN <<<<"--out-h", IntToText(h)>>>> ELSE <<>>)
    ELSE IF ScaleDiffers(sv) THEN <<<<"--scale", FormatFixed4(sv)>>>> ELSE <<>>

StartLines == <<Line("starting", <<>>, "", <<>>), Line("input", <<>>, "", <<>>), Line("output", <<>>, "", <<>>)>>

\* The radio buttons: "Scale" or "Exact size (px)".
SetExact(b) ==
    /\ exact_radio # b
    /\ exact_radio' = b
    /\ UNCHANGED <<files, scale_spin, width_spin, height_spin, run_button, process, args, log>>

\* The spin boxes; _update_size_controls enables the scale box in Scale
\* mode and the width and height boxes in Exact mode.
SetScale(v) ==
    /\ ~exact_radio
    /\ scale_spin # v
    /\ scale_spin' = v
    /\ UNCHANGED <<files, exact_radio, width_spin, height_spin, run_button, process, args, log>>

SetWidth(v) ==
    /\ exact_radio
    /\ width_spin # v
    /\ width_spin' = v
    /\ UNCHANGED <<files, exact_radio, scale_spin, height_spin, run_button, process, args, log>>

SetHeight(v) ==
    /\ exact_radio
    /\ height_spin # v
    /\ height_spin' = v
    /\ UNCHANGED <<files, exact_radio, scale_spin, width_spin, run_button, process, args, log>>

\* _run_conversion from line 405 on (the directory checks passed), by a
\* click on the enabled Run button.  illustrator_valid: the path is empty
\* or a valid bundle; start_raises: process.start() raises.
RunConversion(illustrator_valid, start_raises) ==
    /\ run_button
    /\ log' = StartLines
    /\ IF ~illustrator_valid
       THEN /\ run_button' = TRUE
            /\ process' = "created"
            /\ args' = <<>>
       ELSE /\ args' = SizingArgs(exact_radio, scale_value, width_spin, height_spin)
            /\ run_button' = start_raises
            /\ process' = IF start_raises THEN "created" ELSE "running"
    /\ UNCHANGED <<files, ui>>

\* _merge_copy_tree: the files the script produced replace their namesakes.
MergeCopy(fs, produced) == [n \in Names |-> IF n \in DOMAIN produced THEN produced[n] ELSE fs[n]]

\* What the script leaves in the input directory's SVG folder.
ScriptOutputs == {<<>>, NameA :> DocWide}

\* _on_finished, on the finished signal of the running process.  svg_dir:
\* the script produced an SVG folder; order: the order of os.walk.
FinishLines == <<Line("finished", <<>>, "", <<>>), Line("copying", <<>>, "", <<>>), Line("postprocessing", <<>>, "", <<>>)>>

OnFinished(svg_dir, produced, order) ==
    /\ process = "running"
    /\ IF svg_dir
       THEN \E done \in {postprocess_svg_sizing([fs |-> MergeCopy(files, produced), lg |-> log \o FinishLines], order,
                                                exact_radio, scale_value, width_spin, height_spin)} :
               /\ files' = done.fs
               /\ log' = done.lg
       ELSE /\ log' = Append(log, Line("finished", <<>>, "", <<>>))
            /\ UNCHANGED files
    /\ run_button' = TRUE
    /\ process' = "None"
    /\ args' = <<>>
    /\ UNCHANGED ui

\* ---------------------------------------------------------- specifications
TargetChoices == 0..MaxTarget

\* The heights typed into the window: unset or set.
HeightChoices == {0, 1}

InitUi ==
    /\ exact_radio = FALSE
    /\ scale_spin = 100
    /\ width_spin = 0
    /\ height_spin = 0

InitApp ==
    /\ run_button = TRUE
    /\ process = "None"
    /\ args = <<>>
    /\ log = <<>>

\* The window as constructed, over an output folder of earlier results.
Init ==
    /\ files = Dir(DocPlain, DocNegative)
    /\ InitUi
    /\ InitApp

Next ==
    \/ \E b \in BOOLEAN : SetExact(b)
    \/ \E v \in ScaleChoices : SetScale(v)
    \/ \E v \in TargetChoices : SetWidth(v)
    \/ \E v \in HeightChoices : SetHeight(v)
    \/ \E i, r \in BOOLEAN : RunConversion(i, r)
    \/ \E d \in BOOLEAN, p \in ScriptOutputs, o \in Orders : OnFinished(d, p, o)

Spec == Init /\ [][Next]_vars

\* The normalizer over drawn inputs: any document, any policy the resizer
\* distinguishes (the widgets of the other mode at their defaults), and
\* conversions run one after the other with the widgets left alone.
InitResize ==
    /\ files \in {Dir(a, b) : a \in RichDocs, b \in {DocWide, DocNegative}}
    /\ exact_radio \in BOOLEAN
    /\ scale_spin \in (IF exact_radio THEN {100} ELSE ScaleChoices)
    /\ width_spin \in (IF exact_radio THEN TargetChoices ELSE {0})
    /\ height_spin \in (IF exact_radio THEN TargetChoices ELSE {0})
    /\ InitApp

\* The script's folder brings no new file, so that every file a batch
\* meets is a drawn document or the result of the batch before.
NextResize ==
    \/ \E i, r \in BOOLEAN : RunConversion(i, r)
    \/ \E d \in BOOLEAN, o \in Orders : OnFinished(d, <<>>, o)

SpecResize == InitResize /\ [][NextResize]_vars


\* ------------------------------------------------------------- properties
SvgNames == {n \in Names : IsSvgName(n)}

HasLine(lg, kind) == \E i \in 1..Len(lg) : lg[i].kind = kind

ResizedIn(lg, name) == \E i \in 1..Len(lg) : lg[i].kind = "resized" /\ lg[i].name = name

SkippedIn(lg, name) == \E i \in 1..Len(lg) : lg[i].kind = "skipped" /\ lg[i].name = name

SkippedFor(lg, name, reason) == \E i \in 1..Len(lg) : lg[i] = Line("skipped", name, reason, <<>>)

\* A step of _on_finished in which _postprocess_svg_sizing ran.
PostStep == process = "running" /\ process' = "None" /\ HasLine(log', "postprocessing")

\* ... and walked the directory.
WalkStep == PostStep /\ ~HasLine(log', "skip_all")

\* The batch of the last conversion walked the directory.
Walked == HasLine(log, "postprocessing") /\ ~HasLine(log, "skip_all")

SizeAttrs(doc) == <<doc.width, doc.height, doc.viewBox>>

Px(text) == Attr(text \o <<"p", "x">>)

\* The viewBox numbers of a document that carries the attribute.
VbOf(doc) == ParseViewBox(get_attr(doc, "viewBox", <<>>))

HasValidViewBox(doc) ==
    /\ doc.wellFormed
    /\ get_attr(doc, "viewBox", <<>>) # <<>>
    /\ VbOf(doc).ok
    /\ VbOf(doc).vals[3].n > 0
    /\ VbOf(doc).vals[4].n > 0

\* C1: once _resize_svg has succeeded on a file under a policy, running it
\* again on the rewritten file with the same policy succeeds and yields the
\* same width, height and viewBox.
C1_Idempotent ==
    [][WalkStep => \A f \in SvgNames : ~SkippedIn(log', f) =>
        /\ resize_svg(files'[f], exact_radio, scale_value, width_spin, height_spin).outcome # "raise"
        /\ SizeAttrs(resize_svg(files'[f], exact_radio, scale_value, width_spin, height_spin).doc) = SizeAttrs(files'[f])]_vars

\* a.svg was scaled by 1.5 from a 100 x 50 viewBox, and a further run
\* leaves it as it is.
C1_Witness ==
    /\ Walked /\ ResizedIn(log, NameA)
    /\ ~exact_radio /\ scale_spin = 150
    /\ files[NameA].width = Px(<<"1", "5", "0">>)
    /\ files[NameA].serializer = "etree"
    /\ resize_svg(files[NameA], exact_radio, scale_value, width_spin, height_spin).doc = files[NameA]

\* C2: in Scale mode with factor 1.0 the batch is skipped as a whole: one
\* log line, no file opened or written, every file as it was.
C2_BatchSkip ==
    [][PostStep /\ ~exact_radio /\ scale_spin = 100 =>
        /\ files' = files
        /\ log' = log \o FinishLines \o <<Line("skip_all", <<>>, "", <<>>)>>]_vars

\* The batch was skipped over a directory with a file without geometry
\* and a file with an invalid viewBox.
C2_Witness ==
    /\ HasLine(log, "skip_all")
    /\ ~exact_radio /\ scale_spin = 100
    /\ files = Dir(DocBare, DocNegative)

\* C3: in a batch that walks the directory every file gets the effect of
\* its own _resize_svg call, wherever it comes in the walk: a failing file
\* is reported with its name and reason and left alone, any other file is
\* resized, and the handler completes.
C3_Isolation ==
    [][WalkStep => \A f \in SvgNames :
        /\ resize_svg(files[f], exact_radio, scale_value, width_spin, height_spin).outcome = "raise" =>
              /\ SkippedFor(log', f, resize_svg(files[f], exact_radio, scale_value, width_spin, height_spin).reason)
              /\ ~ResizedIn(log', f)
        /\ resize_svg(files[f], exact_radio, scale_value, width_spin, height_spin).outcome # "raise" =>
              /\ files'[f] = resize_svg(files[f], exact_radio, scale_value, width_spin, height_spin).doc
              /\ ~SkippedIn(log', f)
        /\ resize_svg(files[f], exact_radio, scale_value, width_spin, height_spin).outcome = "written" => ResizedIn(log', f)
        /\ run_button']_vars

\* A file was resized after another file of the same walk had failed.
C3_Witness ==
    \E i, j \in 1..Len(log) :
        /\ i < j
        /\ log[i].kind = "skipped" /\ log[i].name = NameB
        /\ log[j].kind = "resized" /\ log[j].name = NameA
        /\ files[NameA].serializer = "etree"


\* The length grammar of the specification: a sign-free decimal number and
\* an optional unit, in pixels at 96 per inch; <<>> when the text is none.
SpecUnit(s) == IF Len(s) >= 2 /\ SubSeq(s, Len(s) - 1, Len(s)) \in Units THEN SubSeq(s, Len(s) - 1, Len(s)) ELSE <<>>

SpecNumber(s) == IF SpecUnit(s) = <<>> THEN s ELSE Strip(SubSeq(s, 1, Len(s) - 2))

SpecLengthOf(s) ==
    IF SpecNumber(s) = <<>> \/ SpecNumber(s)[1] \in {"+", "-"} \/ ParseFloat(SpecNumber(s)) = <<>> THEN <<>>
    ELSE <<RMul(ParseFloat(SpecNumber(s))[1], UnitFactor(IF SpecUnit(s) = <<>> THEN <<"p", "x">> ELSE SpecUnit(s)))>>

SpecLengthPx(text) == SpecLengthOf(Strip(text))

PositiveLength(text) == SpecLengthPx(text) # <<>> /\ SpecLengthPx(text)[1].n > 0

\* C4: a document without a viewBox whose width and height are sign-free
\* decimal lengths with positive pixel values gets the viewBox
\* "0 0 widthPx heightPx" and is resized with it.
C4_Synthesis ==
    [][WalkStep /\ ~NothingRequested(exact_radio, width_spin, height_spin) => \A f \in SvgNames :
        (/\ files[f].wellFormed /\ files[f].writable
         /\ files[f].viewBox = Absent
         /\ PositiveLength(get_attr(files[f], "width", <<>>))
         /\ PositiveLength(get_attr(files[f], "height", <<>>)))
        => /\ files'[f].viewBox = Attr(<<"0", " ", "0", " ">> \o FormatG(SpecLengthPx(get_attr(files[f], "width", <<>>))[1])
                                       \o <<" ">> \o FormatG(SpecLengthPx(get_attr(files[f], "height", <<>>))[1]))
           /\ ResizedIn(log', f)]_vars

TokenCount(text) == Len(Split(ReplaceCommas(text)))

\* C5: a viewBox attribute with fewer or more than four tokens is rejected
\* as an invalid viewBox and the file is not rewritten.
C5_TokenCount ==
    [][WalkStep => \A f \in SvgNames :
        (/\ files[f].wellFormed
         /\ get_attr(files[f], "viewBox", <<>>) # <<>>
         /\ TokenCount(get_attr(files[f], "viewBox", <<>>)) # 4)
        => /\ files'[f] = files[f]
           /\ SkippedFor(log', f, "Invalid viewBox")]_vars


VbW(doc) == VbOf(doc).vals[3]

VbH(doc) == VbOf(doc).vals[4]

\* C6: in Exact mode with one dimension set, a rewritten file gets that
\* dimension as given and the other one from the viewBox ratio alone
\* (w * vbH / vbW, or h * vbW / vbH), each as canonical pixel text,
\* whatever width and height the document had.
C6_AspectExact ==
    [][WalkStep /\ exact_radio => \A f \in SvgNames : HasValidViewBox(files[f]) /\ ResizedIn(log', f) =>
        /\ width_spin > 0 /\ height_spin = 0 =>
              /\ files'[f].width = Px(IntToText(width_spin))
              /\ files'[f].height = Attr(format_px(Rat(width_spin * VbH(files[f]).n * VbW(files[f]).d, VbH(files[f]).d * VbW(files[f]).n)))
        /\ width_spin = 0 /\ height_spin > 0 =>
              /\ files'[f].height = Px(IntToText(height_spin))
              /\ files'[f].width = Attr(format_px(Rat(height_spin * VbW(files[f]).n * VbH(files[f]).d, VbW(files[f]).d * VbH(files[f]).n)))]_vars

\* The 3 x 1 document with the stale width "10" was given width 1 and got
\* the height 0.33.
C6_Witness ==
    /\ Walked /\ ResizedIn(log, NameA)
    /\ exact_radio /\ width_spin = 1 /\ height_spin = 0
    /\ files[NameA].viewBox = DocStale.viewBox
    /\ files[NameA].width = Px(<<"1">>)
    /\ files[NameA].height = Px(<<"0", ".", "3", "3">>)

\* C7: in Scale mode a rewritten file gets the width vbW * factor and the
\* height vbH * factor, as canonical pixel text, from the viewBox alone.
C7_ScaleArithmetic ==
    [][WalkStep /\ ~exact_radio => \A f \in SvgNames : HasValidViewBox(files[f]) /\ ResizedIn(log', f) =>
        /\ files'[f].width = Attr(format_px(Rat(VbW(files[f]).n * scale_spin, VbW(files[f]).d * 100)))
        /\ files'[f].height = Attr(format_px(Rat(VbH(files[f]).n * scale_spin, VbH(files[f]).d * 100)))]_vars

\* The 0.5 x 1 document with the width "1in" was scaled by 0.25.
C7_Witness ==
    /\ Walked /\ ResizedIn(log, NameA)
    /\ ~exact_radio /\ scale_spin = 25
    /\ files[NameA].viewBox = DocHalf.viewBox
    /\ files[NameA].width = Px(<<"0", ".", "1", "2">>)
    /\ files[NameA].height = Px(<<"0", ".", "2", "5">>)

\* C8: in Exact mode with width and height both unset no file is written:
\* the directory is as it was and no file is reported as resized.
C8_ExactUnset ==
    [][PostStep /\ exact_radio /\ width_spin = 0 /\ height_spin = 0 =>
        /\ files' = files
        /\ \A f \in Names : ~ResizedIn(log', f)]_vars

\* The walk met a valid document in Exact mode with nothing set and left
\* it alone, beside a file without viewBox.
C8_Witness ==
    /\ Walked
    /\ exact_radio /\ width_spin = 0 /\ height_spin = 0
    /\ files[NameA] = DocOffset
    /\ ~SkippedIn(log, NameA) /\ ~ResizedIn(log, NameA)

\* C9: in Exact mode with both dimensions set a rewritten file gets exactly
\* them, whatever the viewBox ratio.
C9_ExactStretch ==
    [][WalkStep /\ exact_radio /\ width_spin > 0 /\ height_spin > 0 => \A f \in SvgNames :
        HasValidViewBox(files[f]) /\ ResizedIn(log', f) =>
            /\ files'[f].width = Px(IntToText(width_spin))
            /\ files'[f].height = Px(IntToText(height_spin))]_vars

\* The 100 x 50 document was stretched to 2 x 2.
C9_Witness ==
    /\ Walked /\ ResizedIn(log, NameA)
    /\ exact_radio /\ width_spin = 2 /\ height_spin = 2
    /\ files[NameA].viewBox = DocPlain.viewBox
    /\ files[NameA].width = Px(<<"2">>)
    /\ files[NameA].height = Px(<<"2">>)

\* C10: a document with a valid viewBox keeps the viewBox value through
\* the rewrite; only width, height and preserveAspectRatio change.
C10_ViewBoxKept ==
    [][PostStep => \A f \in SvgNames : HasValidViewBox(files[f]) =>
        /\ files'[f].viewBox = files[f].viewBox
        /\ [files'[f] EXCEPT !.width = files[f].width, !.height = files[f].height,
                             !.preserveAspectRatio = files[f].preserveAspectRatio,
                             !.serializer = files[f].serializer] = files[f]]_vars

\* The document with the comma-separated viewBox was rewritten.
C10_Witness ==
    /\ Walked /\ ResizedIn(log, NameA)
    /\ files[NameA].serializer = "etree"
    /\ files[NameA].viewBox = DocStale.viewBox
    /\ files[NameA].width # DocStale.width


\* The document that differs from doc only in having no width and height.
Unsized(doc) == [doc EXCEPT !.width = Absent, !.height = Absent]

\* C11: a document with a valid viewBox is written exactly when the same
\* document without width and height is written under the same policy,
\* and then with the same width and height values: the existing width and
\* height attributes (absent, malformed, stale, in any unit) make no
\* difference.
C11_ViewBoxAuthoritative ==
    [][WalkStep => \A f \in SvgNames : HasValidViewBox(files[f]) =>
        /\ ResizedIn(log', f) <=> resize_svg(Unsized(files[f]), exact_radio, scale_value, width_spin, height_spin).outcome = "written"
        /\ ResizedIn(log', f) =>
              /\ files'[f].width = resize_svg(Unsized(files[f]), exact_radio, scale_value, width_spin, height_spin).doc.width
              /\ files'[f].height = resize_svg(Unsized(files[f]), exact_radio, scale_value, width_spin, height_spin).doc.height]_vars


\* The document has no viewBox to read, and width and height do not both
\* give a positive pixel length (line 587).
MissingGeometry(doc) ==
    /\ doc.wellFormed
    /\ get_attr(doc, "viewBox", <<>>) = <<>>
    /\ DeriveViewBox(parse_length_to_px(get_attr(doc, "width", <<>>)), parse_length_to_px(get_attr(doc, "height", <<>>))).kind = "missing"

\* The document has a viewBox of four numbers whose width or height is
\* not positive (line 602).
NonPositiveViewBox(doc) ==
    /\ doc.wellFormed
    /\ get_attr(doc, "viewBox", <<>>) # <<>>
    /\ VbOf(doc).ok
    /\ (VbW(doc).n <= 0 \/ VbH(doc).n <= 0)

\* C12: a file without usable geometry, or with a non-positive viewBox
\* width or height, keeps its content through the batch, is reported as
\* skipped with that reason and is not reported as resized.
C12_GeometryErrors ==
    [][WalkStep => \A f \in SvgNames :
        /\ MissingGeometry(files[f]) =>
              /\ files'[f] = files[f]
              /\ SkippedFor(log', f, "Missing viewBox and numeric width/height")
              /\ ~ResizedIn(log', f)
        /\ NonPositiveViewBox(files[f]) =>
              /\ files'[f] = files[f]
              /\ SkippedFor(log', f, "Non-positive viewBox dimensions")
              /\ ~ResizedIn(log', f)]_vars

\* A batch met a file without viewBox and a file with a negative viewBox
\* width, and skipped both.
C12_Witness ==
    /\ Walked
    /\ files[NameA] = DocBare /\ MissingGeometry(files[NameA])
    /\ SkippedFor(log, NameA, "Missing viewBox and numeric width/height")
    /\ files[NameB] = DocNegative /\ NonPositiveViewBox(files[NameB])
    /\ SkippedFor(log, NameB, "Non-positive viewBox dimensions")


\* The application with a script that always comes to an end: a running
\* process eventually emits finished, on which Qt calls _on_finished.
Finishes == \E d \in BOOLEAN, p \in ScriptOutputs, o \in Orders : OnFinished(d, p, o)

SpecLive == Init /\ [][Next]_vars /\ WF_vars(Finishes)

\* C13: once _run_conversion has created the process of a run, the run
\* ends with the Run button enabled and self.process cleared, whichever
\* way it ends.
C13_RunLifecycle == (process # "None") ~> (run_button /\ process = "None")


\* C14: when _postprocess_svg_sizing runs at the end of a conversion, the
\* size policy it reads and applies to the files is the one that was
\* handed to the script as --scale / --out-w / --out-h when the conversion
\* was started, whatever the user did to the widgets in between.
C14_PolicyConsistency ==
    [][PostStep => args = SizingArgs(exact_radio, scale_value, width_spin, height_spin)]_vars

====
